---- MODULE Spec2Model ----
(***************************************************************************)
(* Rates engine of valutatrade_hub: the rate store (parser_service/        *)
(* storage.py), the updater (parser_service/updater.py), the source        *)
(* clients (parser_service/api_clients.py) and the rate resolver           *)
(* (core/usecases.py, PortfolioManager.get_rate).                          *)
(*                                                                         *)
(* Floats are modelled as exact rationals <<n, d>> in lowest terms; ISO    *)
(* timestamps as ticks of an integer clock; a Python value that may be     *)
(* None as a set with at most one element ({} is None).                    *)
(***************************************************************************)
EXTENDS Integers, Sequences, FiniteSets, TLC

VARIABLES
    files,      \* the data directory: path -> file (rates.json, exchange_rates.json)
    tmpFiles,   \* the temporary files of the data directory: name -> file
    clock,      \* datetime.now(timezone.utc), in ticks
    pc,         \* thread -> its position in run_update / _atomic_write
    loc,        \* thread -> the local variables of its run_update call
    upd,        \* updater instance -> its counters successful_sources, total_rates
    budget,     \* what is left of the bounds on runs and injected faults
    query,      \* the last get_rate call: <<from_code, to_code>>
    answer,     \* what that call returned or raised
    read_result, \* what the last read_current_rates call returned or raised
    fetch,      \* the last fetch_rates call: the client, the endpoint's answer, the result
    sched,      \* the RatesScheduler: its _stop_event and its _thread
    run         \* worker thread -> is it alive, and the wait_time of its _run loop

vars == <<files, tmpFiles, clock, pc, loc, upd, budget, query, answer,
          read_result, fetch, sched, run>>

-----------------------------------------------------------------------------
(* Bounds of the model *)

\* json.dump reaches the file in this many writes
NChunks == 2
\* most pairs of a snapshot file that the resolver is given
MaxPairs == 3

-----------------------------------------------------------------------------
(* Rationals *)

RECURSIVE GCD(_, _)
GCD(a, b) == IF b = 0 THEN a ELSE GCD(b, a % b)

Abs(n) == IF n < 0 THEN 0 - n ELSE n

\* n/d in lowest terms, the sign on the numerator
Norm(n, d) ==
    LET g == GCD(Abs(n), Abs(d))
        s == IF d < 0 THEN 0 - 1 ELSE 1
    IN  IF g = 0 THEN <<n, d>> ELSE <<(s * n) \div g, (s * d) \div g>>

RInt(n) == <<n, 1>>

\* x / y, both floats; y is non-zero where this is used
RDiv(x, y) == Norm(x[1] * y[2], x[2] * y[1])

RIsZero(x) == x[1] = 0

-----------------------------------------------------------------------------
(* Currency registry: core/currencies.py *)

_currency_registry == {"USD", "EUR", "RUB", "BTC", "ETH"}

\* str.upper() on the codes the model passes around
upper(code) ==
    CASE code = "eur" -> "EUR"
      [] code = "usd" -> "USD"
      [] OTHER -> code

Raise(exc, reason) ==
    [kind |-> "raise", exc |-> exc, reason |-> reason,
     rate |-> RInt(0), updated_at |-> {}]
Return(rate, updated_at) ==
    [kind |-> "return", exc |-> "", reason |-> <<>>,
     rate |-> rate, updated_at |-> updated_at]

\* get_currency(code): the exception it raises, {} when it returns
get_currency(code) ==
    IF upper(code) \in _currency_registry
    THEN {}
    ELSE {Raise("CurrencyNotFoundError", <<upper(code)>>)}

-----------------------------------------------------------------------------
(* Files and JSON values *)

RATES_FILE_PATH == "data/rates.json"
HISTORY_FILE_PATH == "data/exchange_rates.json"

\* a JSON object with the keys `keys` (of "pairs", "last_refresh")
JObject(keys, pairs, last_refresh) ==
    [type |-> "object", keys |-> keys, pairs |-> pairs,
     last_refresh |-> last_refresh, items |-> <<>>]
\* a JSON array
JArray(items) ==
    [type |-> "array", keys |-> {}, pairs |-> <<>>, last_refresh |-> 0, items |-> items]

EmptyDict == JObject({}, <<>>, 0)

\* a file holding the first `written` of the NChunks writes of json.dump(json)
File(json, written) == [exists |-> TRUE, json |-> json, written |-> written]
NoFile == [exists |-> FALSE, json |-> EmptyDict, written |-> 0]

\* json.load succeeds on the whole text only
Parses(f) == f.exists /\ f.written = NChunks

\* the pair key f"{from_code}_{to_code}"
PairKey(from_code, to_code) == <<from_code, to_code>>

\* what a call of the reader gives: the exception that leaves it ("" when it
\* returns) and the value it returns
ReadResult(raised, value) == [raised |-> raised, value |-> value]

\* lines 89-90 of read_current_rates: open and json.load; io_error is an OSError of
\* the open or of the read (the file was removed meanwhile, is not readable, ...)
ReadOpenLoad(fs, io_error) ==
    IF io_error THEN ReadResult("OSError", EmptyDict)
    ELSE IF ~Parses(fs[RATES_FILE_PATH]) THEN ReadResult("JSONDecodeError", EmptyDict)
    ELSE ReadResult("", fs[RATES_FILE_PATH].json)

\* lines 91-93: `except (json.JSONDecodeError, Exception)` returns {}
ReadExceptJsonOnly(r) ==
    IF r.raised = "JSONDecodeError" THEN ReadResult("", EmptyDict) ELSE r
ReadExcept(r) == IF r.raised # "" THEN ReadResult("", EmptyDict) ELSE r

\* RatesStorage.read_current_rates, with or without an I/O error on the way
ReadCurrentRatesCall(fs, io_error) ==
    IF ~fs[RATES_FILE_PATH].exists THEN ReadResult("", EmptyDict)
    ELSE ReadExcept(ReadOpenLoad(fs, io_error))

\* RatesStorage.read_current_rates as get_rate uses it
read_current_rates(fs) ==
    IF ~fs[RATES_FILE_PATH].exists THEN EmptyDict
    ELSE IF Parses(fs[RATES_FILE_PATH]) THEN fs[RATES_FILE_PATH].json
    ELSE EmptyDict

-----------------------------------------------------------------------------
(* Rate resolver: PortfolioManager.get_rate *)

\* bool(x) of a parsed JSON value
Truthy(j) == IF j.type = "object" THEN j.keys # {} ELSE j.items # <<>>

\* `'pairs' in rates_data`
HasPairs(j) == j.type = "object" /\ "pairs" \in j.keys

\* rates_data.get('last_refresh')
GetLastRefresh(j) == IF "last_refresh" \in j.keys THEN {j.last_refresh} ELSE {}

\* the except clause of get_rate: every exception leaves as ApiRequestError
Wrapped(reason) == Raise("ApiRequestError", <<"Failed to get rate">> \o reason)

\* 1.0 / rate of a stored entry (the rate is non-zero where this is used)
InverseRateSame(rate) == rate
InverseRate(rate) == RDiv(RInt(1), rate)

\* one leg of the conversion through USD (from_rate, to_rate): rate is {} for None,
\* raised tells that 1.0 / rate divided by zero
UsdLeg(pairs, code) ==
    IF PairKey(code, "USD") \in DOMAIN pairs
    THEN [raised |-> FALSE, rate |-> {pairs[PairKey(code, "USD")].rate}]
    ELSE IF PairKey("USD", code) \in DOMAIN pairs
    THEN IF RIsZero(pairs[PairKey("USD", code)].rate)
         THEN [raised |-> TRUE, rate |-> {}]
         ELSE [raised |-> FALSE,
               rate |-> {InverseRate(pairs[PairKey("USD", code)].rate)}]
    ELSE [raised |-> FALSE, rate |-> {}]

\* `if from_rate and to_rate`: None and 0.0 are false
RateTruthy(r) == r # {} /\ \A x \in r : ~RIsZero(x)

\* calculated_rate = to_rate / from_rate
CrossRateSwapped(from_rate, to_rate) == RDiv(from_rate, to_rate)
CrossRate(from_rate, to_rate) == RDiv(to_rate, from_rate)

\* the failure of line 263 when no path resolves
NotFoundDefault(from_code, to_code) == Return(RInt(1), {})
NotFound(from_code, to_code) ==
    Wrapped(<<"Rate for pair not found", from_code, to_code>>)

ResolveViaUsd(rates_data, from_code, to_code) ==
    LET from_leg == UsdLeg(rates_data.pairs, from_code)
        to_leg   == UsdLeg(rates_data.pairs, to_code)
    IN  IF from_leg.raised \/ to_leg.raised
        THEN Wrapped(<<"float division by zero">>)
        ELSE IF RateTruthy(from_leg.rate) /\ RateTruthy(to_leg.rate)
        THEN Return(CrossRate(CHOOSE x \in from_leg.rate : TRUE,
                              CHOOSE x \in to_leg.rate : TRUE),
                    GetLastRefresh(rates_data))
        ELSE NotFound(from_code, to_code)

\* lines 219-233 with the two lookups in the other order
ResolvePairReverseFirst(rates_data, from_code, to_code) ==
    LET pairs == rates_data.pairs
        direct_pair  == PairKey(from_code, to_code)
        reverse_pair == PairKey(to_code, from_code)
    IN  IF reverse_pair \in DOMAIN pairs /\ ~RIsZero(pairs[reverse_pair].rate)
        THEN Return(InverseRate(pairs[reverse_pair].rate),
                    {pairs[reverse_pair].updated_at})
        ELSE IF direct_pair \in DOMAIN pairs
        THEN Return(pairs[direct_pair].rate, {pairs[direct_pair].updated_at})
        ELSE ResolveViaUsd(rates_data, from_code, to_code)

ResolvePair(rates_data, from_code, to_code) ==
    LET pairs == rates_data.pairs
        direct_pair  == PairKey(from_code, to_code)
        reverse_pair == PairKey(to_code, from_code)
    IN  IF direct_pair \in DOMAIN pairs
        THEN Return(pairs[direct_pair].rate, {pairs[direct_pair].updated_at})
        ELSE IF reverse_pair \in DOMAIN pairs
        THEN IF RIsZero(pairs[reverse_pair].rate)
             THEN Wrapped(<<"float division by zero">>)
             ELSE Return(InverseRate(pairs[reverse_pair].rate),
                         {pairs[reverse_pair].updated_at})
        ELSE ResolveViaUsd(rates_data, from_code, to_code)

\* lines 215-217: the same currency on both sides
SameCurrencyLookup(rates_data, code) == ResolvePair(rates_data, code, code)
SameCurrency(rates_data, code) == Return(RInt(1), GetLastRefresh(rates_data))

get_rate(fs, from_code, to_code) ==
    IF get_currency(from_code) # {} THEN CHOOSE e \in get_currency(from_code) : TRUE
    ELSE IF get_currency(to_code) # {} THEN CHOOSE e \in get_currency(to_code) : TRUE
    ELSE LET rates_data == read_current_rates(fs)
         IN  IF ~Truthy(rates_data) \/ ~HasPairs(rates_data)
             THEN Wrapped(<<"Rates data not available">>)
             ELSE IF from_code = to_code
             THEN SameCurrency(rates_data, from_code)
             ELSE ResolvePair(rates_data, from_code, to_code)

\* WalletCLI.buy_currency, the except clauses of lines 354-365 on a failure of
\* get_rate: the hint printed under the error line ("" when the clause prints none)
BuyCurrencyHint(ans) ==
    CASE ans.exc = "InsufficientFundsError" -> ""
      [] ans.exc = "CurrencyNotFoundError" ->
            "Use 'Currency Info' command to see available currencies"
      [] ans.exc = "ApiRequestError" ->
            "Please try again later or check network connection"
      [] OTHER -> ""

-----------------------------------------------------------------------------
(* Parser configuration and the shape of a snapshot *)

CRYPTO_CURRENCIES == <<"BTC", "ETH", "SOL">>
FIAT_CURRENCIES == <<"EUR", "GBP", "RUB">>
BASE_CURRENCY == "USD"

Range(seq) == {seq[i] : i \in DOMAIN seq}

\* the source tag of _prepare_rates_data and _save_historical_records
SourceOf(from_currency) ==
    IF from_currency \in Range(CRYPTO_CURRENCIES) THEN "CoinGecko" ELSE "ExchangeRate-API"

Entry(rate, updated_at, source) ==
    [rate |-> rate, updated_at |-> updated_at, source |-> source]

FilesWith(rates_file) ==
    [path \in {RATES_FILE_PATH, HISTORY_FILE_PATH} |->
        IF path = RATES_FILE_PATH THEN rates_file ELSE NoFile]

-----------------------------------------------------------------------------
(* Source clients: parser_service/api_clients.py *)

\* CRYPTO_ID_MAP, in its order: <<code, CoinGecko id>>
CRYPTO_ID_MAP == << <<"BTC", "bitcoin">>, <<"ETH", "ethereum">>, <<"SOL", "solana">> >>

\* what a fetch_rates call gives: the exception it raises ("" when it returns) and
\* the mapping it returns, a dict in insertion order: <<pair_key, rate>>, ...
Fetched(rates) == [raised |-> "", rates |-> rates]
FetchRaised(exc) == [raised |-> exc, rates |-> <<>>]

\* the answers of the CoinGecko endpoint the model draws from: a transport error, a
\* body that is no mapping of ids to prices, or prices for some of the ids
CgIdsAnswered == {"bitcoin"}
CgPrices == {RInt(4)}
CgResponses ==
    {[kind |-> "error", data |-> <<>>], [kind |-> "malformed", data |-> <<>>]}
    \cup UNION {{[kind |-> "json", data |-> d] : d \in [S -> CgPrices]} :
                   S \in SUBSET CgIdsAnswered}

RECURSIVE CgParse(_, _)
\* CoinGeckoClient._parse_response, from entry i of CRYPTO_ID_MAP on
CgParse(data, i) ==
    IF i > Len(CRYPTO_ID_MAP) THEN <<>>
    ELSE IF CRYPTO_ID_MAP[i][2] \in DOMAIN data
         THEN << <<PairKey(CRYPTO_ID_MAP[i][1], BASE_CURRENCY), data[CRYPTO_ID_MAP[i][2]]>> >>
              \o CgParse(data, i + 1)
         ELSE CgParse(data, i + 1)

\* CoinGeckoClient.fetch_rates
CoinGeckoFetchRates(resp) ==
    CASE resp.kind = "error" -> FetchRaised("ApiRequestError")
      [] resp.kind = "malformed" -> FetchRaised("TypeError")
      [] OTHER -> Fetched(CgParse(resp.data, 1))

\* the answers of the ExchangeRate-API endpoint the model draws from; "nokey" is
\* an empty EXCHANGERATE_API_KEY
ErCodesAnswered == {"EUR", "JPY"}
ErRates == {<<1, 2>>}
ErResponses ==
    {[kind |-> k, result |-> "", conversion_rates |-> <<>>] :
        k \in {"nokey", "error", "malformed"}}
    \cup UNION {{[kind |-> "json", result |-> r, conversion_rates |-> d] :
                    r \in {"success", "error"}, d \in [S -> ErRates]} :
                   S \in SUBSET ErCodesAnswered}

\* the fallback_rates table
FallbackRate(pair_key) ==
    CASE pair_key = <<"EUR", "USD">> -> {<<93, 100>>}
      [] pair_key = <<"GBP", "USD">> -> {<<79, 100>>}
      [] pair_key = <<"RUB", "USD">> -> {<<11, 1000>>}
      [] OTHER -> {}

RECURSIVE ErFallback(_)
\* ExchangeRateApiClient._get_fallback_rates, from entry i of FIAT_CURRENCIES on
ErFallback(i) ==
    IF i > Len(FIAT_CURRENCIES) THEN <<>>
    ELSE LET pair_key == PairKey(FIAT_CURRENCIES[i], BASE_CURRENCY)
         IN  IF FallbackRate(pair_key) # {}
             THEN << <<pair_key, CHOOSE r \in FallbackRate(pair_key) : TRUE>> >>
                  \o ErFallback(i + 1)
             ELSE ErFallback(i + 1)

RECURSIVE ErParseRates(_, _)
ErParseRates(base_rates, i) ==
    IF i > Len(FIAT_CURRENCIES) THEN <<>>
    ELSE IF FIAT_CURRENCIES[i] \in DOMAIN base_rates
         THEN << <<PairKey(FIAT_CURRENCIES[i], BASE_CURRENCY), base_rates[FIAT_CURRENCIES[i]]>> >>
              \o ErParseRates(base_rates, i + 1)
         ELSE ErParseRates(base_rates, i + 1)

\* ExchangeRateApiClient._parse_response
ErParseAnyResult(resp) == ErParseRates(resp.conversion_rates, 1)
ErParse(resp) ==
    IF resp.result # "success" THEN ErFallback(1)
    ELSE ErParseRates(resp.conversion_rates, 1)

\* ExchangeRateApiClient.fetch_rates
ExchangeRateFetchRates(resp) ==
    IF resp.kind # "json" THEN Fetched(ErFallback(1))
    ELSE IF DOMAIN resp.conversion_rates = {} THEN Fetched(ErFallback(1))
    ELSE Fetched(ErParse(resp))

-----------------------------------------------------------------------------
(* Updater: parser_service/updater.py *)

\* run_update calls the model follows, and faults (failed writes, a crash) it injects
MaxRuns == 2
MaxFaults == 1

\* the try/except of _fetch_from_coingecko and _fetch_from_exchangerate
FetchUnguarded(result) == result
FetchGuarded(result) == IF result.raised # "" THEN Fetched(<<>>) ELSE result

Keys(dict) == {dict[i][1] : i \in DOMAIN dict}

\* dict[key] = rate: an existing key keeps its place
DictSetKeepFirst(dict, key, rate) ==
    IF key \in Keys(dict) THEN dict ELSE Append(dict, <<key, rate>>)
DictSet(dict, key, rate) ==
    IF key \in Keys(dict)
    THEN [i \in DOMAIN dict |-> IF dict[i][1] = key THEN <<key, rate>> ELSE dict[i]]
    ELSE Append(dict, <<key, rate>>)

RECURSIVE DictUpdate(_, _)
\* dict.update(other)
DictUpdate(dict, other) ==
    IF other = <<>> THEN dict
    ELSE DictUpdate(DictSet(dict, Head(other)[1], Head(other)[2]), Tail(other))

\* `if not all_rates` of line 44
NothingFetchedNever(all_rates) == FALSE
NothingFetched(all_rates) == all_rates = <<>>

\* RatesUpdater._prepare_rates_data at time `now`: the pairs are stamped first,
\* last_refresh after them
_prepare_rates_data(all_rates, now) ==
    JObject({"pairs", "last_refresh"},
            [k \in Keys(all_rates) |->
                Entry((CHOOSE kv \in Range(all_rates) : kv[1] = k)[2], now + 1,
                      SourceOf(k[1]))],
            now + 2)

\* storage.create_historical_record for entry <<pair_key, rate>> at time `now`
create_historical_record(kv, now) ==
    [id |-> <<kv[1][1], kv[1][2], now>>,
     from_currency |-> upper(kv[1][1]), to_currency |-> upper(kv[1][2]),
     rate |-> kv[2], timestamp |-> now, source |-> SourceOf(kv[1][1]),
     meta |-> kv[1]]

\* RatesStorage._load_history
LoadHistoryAnew(fs) == <<>>
_load_history(fs) ==
    IF ~fs[HISTORY_FILE_PATH].exists THEN <<>>
    ELSE IF Parses(fs[HISTORY_FILE_PATH]) THEN fs[HISTORY_FILE_PATH].json.items
    ELSE <<>>

NoWrite == [file_path |-> "", data |-> EmptyDict, tmp |-> {}, tmp_path |-> {}]
NoException == [type |-> "", from |-> ""]

\* the locals of a run_update call that has just begun on updater u
BeginLoc(u, fs) ==
    [updater |-> u, all_rates |-> <<>>, crypto_rates |-> <<>>, fiat_rates |-> <<>>,
     invoked |-> <<>>, rates_data |-> EmptyDict, i |-> 0, write |-> NoWrite,
     fault |-> NoException, exc |-> NoException, save_failed |-> FALSE,
     ret |-> "None", files_at_call |-> fs]

\* the threads of the process and the updaters they run
\* the threads RatesScheduler.start can have created and not yet seen end
Workers == {"worker", "worker2"}
\* the scheduler's background workers and the foreground caller
Procs == Workers \cup {"manual"}

\* the RatesUpdater of the scheduler and the one WalletCLI.update_rates constructs
Updaters == {"scheduler", "cli"}

\* RatesUpdater.__init__
InitUpdater == [successful_sources |-> 0, total_rates |-> 0]

InitLoc == BeginLoc("scheduler", FilesWith(NoFile))

\* no read_current_rates call and no fetch_rates call yet
NoRead == [raised |-> "none", value |-> EmptyDict]
NoFetch == [client |-> "", response |-> <<>>, result |-> Fetched(<<>>)]

\* RatesScheduler.__init__: the event is clear and there is no thread
InitScheduler == [_stop_event |-> FALSE, _thread |-> {}]
\* a thread that does not run, and one that has just been started on _run
NoThread == [alive |-> FALSE, wait_time |-> 0]
StartedThread == [alive |-> TRUE, wait_time |-> 0]

InitThreads ==
    /\ tmpFiles = <<>>
    /\ clock = 0
    /\ pc = [p \in Procs |-> "idle"]
    /\ loc = [p \in Procs |-> InitLoc]
    /\ upd = [u \in Updaters |-> InitUpdater]
    /\ budget = [runs |-> 0, faults |-> 0]
    /\ read_result = NoRead
    /\ fetch = NoFetch
    /\ sched = InitScheduler
    /\ run = [p \in Workers |-> NoThread]

NoQuery == <<>>
NoAnswer == Raise("", <<>>)


\* the updater a thread calls: the worker the scheduler's (scheduler.py 43), the
\* foreground caller the one WalletCLI.update_rates constructs (interface.py 490)
UpdaterOf(p) == IF p \in Workers THEN "scheduler" ELSE "cli"

\* lines 28-29: self.successful_sources = 0; self.total_rates = 0
CountersKept(counters) == counters
CountersReset(counters) == [successful_sources |-> 0, total_rates |-> 0]

\* line 23-29: run_update begins on updater u, called by thread p
run_update_entry(p, u) ==
    /\ pc[p] = "idle"
    /\ budget.runs < MaxRuns
    /\ budget' = [budget EXCEPT !.runs = @ + 1]
    /\ loc' = [loc EXCEPT ![p] = BeginLoc(u, files)]
    /\ upd' = [upd EXCEPT ![u] = CountersReset(@)]
    /\ pc' = [pc EXCEPT ![p] = "fetch_coingecko"]
    /\ UNCHANGED <<files, tmpFiles, clock, query, answer, read_result, fetch, sched, run>>

\* thread p calls run_update on its updater
RunUpdateBegin(p, u) ==
    /\ u = UpdaterOf(p)
    /\ run_update_entry(p, u)

\* run_update's own `except Exception`: return False
RunUpdateFails(p, l) ==
    /\ loc' = [loc EXCEPT ![p] = [l EXCEPT !.ret = "False"]]
    /\ pc' = [pc EXCEPT ![p] = "idle"]

\* lines 69 and 82: self.total_rates += len(rates)
AddRatesPerSource(total_rates, rates) == total_rates + 1
AddRates(total_rates, rates) == total_rates + Len(rates)

\* _fetch_from_coingecko (65-76) on what the client's fetch_rates gave, `got`, and
\* lines 34-36 of run_update on its result
_fetch_from_coingecko(p, got) ==
    /\ LET u == loc[p].updater
           result == FetchGuarded(got)
           l == [loc[p] EXCEPT !.invoked = Append(@, "coingecko"),
                               !.crypto_rates = result.rates]
       IN  /\ IF result.raised # ""
              THEN /\ RunUpdateFails(p, l)
                   /\ upd' = upd
              ELSE /\ loc' = [loc EXCEPT ![p] =
                         [l EXCEPT !.all_rates =
                             IF result.rates # <<>> THEN DictUpdate(@, result.rates) ELSE @]]
                   /\ upd' = [upd EXCEPT
                         ![u].total_rates =
                             IF got.raised = "" THEN AddRates(@, got.rates) ELSE @,
                         ![u].successful_sources =
                             IF result.rates # <<>> THEN @ + 1 ELSE @]
                   /\ pc' = [pc EXCEPT ![p] = "fetch_exchangerate"]
    /\ UNCHANGED <<files, tmpFiles, clock, budget, query, answer, read_result, fetch, sched, run>>

\* lines 33-36: the crypto client answers resp
FetchCoinGecko(p, resp) ==
    /\ pc[p] = "fetch_coingecko"
    /\ _fetch_from_coingecko(p, CoinGeckoFetchRates(resp))

\* _fetch_from_exchangerate (78-89) on what the client's fetch_rates gave, `got`,
\* and lines 40-42 of run_update on its result
_fetch_from_exchangerate(p, got) ==
    /\ LET u == loc[p].updater
           result == FetchGuarded(got)
           l == [loc[p] EXCEPT !.invoked = Append(@, "exchangerate"),
                               !.fiat_rates = result.rates]
       IN  /\ IF result.raised # ""
              THEN /\ RunUpdateFails(p, l)
                   /\ upd' = upd
              ELSE /\ loc' = [loc EXCEPT ![p] =
                         [l EXCEPT !.all_rates =
                             IF result.rates # <<>> THEN DictUpdate(@, result.rates) ELSE @]]
                   /\ upd' = [upd EXCEPT
                         ![u].total_rates =
                             IF got.raised = "" THEN AddRates(@, got.rates) ELSE @,
                         ![u].successful_sources =
                             IF result.rates # <<>> THEN @ + 1 ELSE @]
                   /\ pc' = [pc EXCEPT ![p] = "merged"]
    /\ UNCHANGED <<files, tmpFiles, clock, budget, query, answer, read_result, fetch, sched, run>>

\* lines 39-42: the fiat client answers resp
FetchExchangeRate(p, resp) ==
    /\ pc[p] = "fetch_exchangerate"
    /\ _fetch_from_exchangerate(p, ExchangeRateFetchRates(resp))

\* what save_current_rates hands to _atomic_write (storage.py 45-48): the snapshot
\* it was given, whatever rates.json holds
SaveMergedWithCurrent(rates_data, fs) ==
    LET current == read_current_rates(fs)
    IN  IF ~HasPairs(current) THEN rates_data
        ELSE [rates_data EXCEPT !.pairs =
                [k \in DOMAIN current.pairs \cup DOMAIN rates_data.pairs |->
                    IF k \in DOMAIN rates_data.pairs
                    THEN rates_data.pairs[k] ELSE current.pairs[k]]]
save_current_rates(rates_data, fs) == rates_data

\* lines 44-50: nothing fetched ends the run; otherwise the snapshot is prepared and
\* save_current_rates enters _atomic_write
PrepareSnapshot(p) ==
    /\ pc[p] = "merged"
    /\ IF NothingFetched(loc[p].all_rates)
       THEN /\ RunUpdateFails(p, loc[p])
            /\ clock' = clock
       ELSE LET rates_data == _prepare_rates_data(loc[p].all_rates, clock)
            IN  /\ loc' = [loc EXCEPT ![p].rates_data = rates_data,
                                      ![p].write = [NoWrite EXCEPT
                                          !.file_path = RATES_FILE_PATH,
                                          !.data = save_current_rates(rates_data, files)]]
                /\ clock' = clock + 2
                /\ pc' = [pc EXCEPT ![p] = "aw_create"]
    /\ UNCHANGED <<files, tmpFiles, upd, budget, query, answer, read_result, fetch, sched, run>>

-----------------------------------------------------------------------------
(* Rate store writes: RatesStorage._atomic_write, step by step *)

\* a name tempfile.NamedTemporaryFile has not handed out: the least unused one
FreshTmp ==
    CHOOSE n \in 1..(Cardinality(DOMAIN tmpFiles) + 1) :
        /\ n \notin DOMAIN tmpFiles
        /\ \A m \in 1..(n - 1) : m \in DOMAIN tmpFiles

\* os.unlink / the source side of os.replace
Unlinked(tmps, names) == [n \in (DOMAIN tmps) \ names |-> tmps[n]]

MayFault == budget.faults < MaxFaults
Faulted == budget' = [budget EXCEPT !.faults = @ + 1]

\* the except clause of _atomic_write (lines 39-43) on the error `fault`: with
\* tmp_path unbound, line 41 raises UnboundLocalError in place of the error
AwExcept(p, fault) ==
    LET w == loc[p].write
    IN  /\ IF w.tmp_path = {}
           THEN /\ loc' = [loc EXCEPT ![p].fault = fault,
                                      ![p].exc = [type |-> "UnboundLocalError",
                                                  from |-> "except"]]
                /\ tmpFiles' = tmpFiles
           ELSE /\ loc' = [loc EXCEPT ![p].fault = fault, ![p].exc = fault]
                /\ tmpFiles' = Unlinked(tmpFiles, w.tmp_path)
        /\ pc' = [pc EXCEPT ![p] = "aw_raised"]

\* lines 27-32: the temporary file is created, or creating it fails
AwCreate(p, ok) ==
    /\ pc[p] = "aw_create"
    /\ IF ok
       THEN /\ tmpFiles' = (FreshTmp :> File(loc[p].write.data, 0)) @@ tmpFiles
            /\ loc' = [loc EXCEPT ![p].write.tmp = {FreshTmp}]
            /\ pc' = [pc EXCEPT ![p] = "aw_dump"]
            /\ budget' = budget
       ELSE /\ MayFault /\ Faulted
            /\ AwExcept(p, [type |-> "OSError", from |-> "NamedTemporaryFile"])
    /\ UNCHANGED <<files, clock, upd, query, answer, read_result, fetch, sched, run>>

TmpOf(p) == CHOOSE n \in loc[p].write.tmp : TRUE

\* the whole text is in the temporary file
FlushedAlways(f) == TRUE
Flushed(f) == f.written = NChunks

\* line 33: json.dump writes the next part of the text, or fails
AwDump(p, ok) ==
    /\ pc[p] = "aw_dump"
    /\ tmpFiles[TmpOf(p)].written < NChunks
    /\ IF ok
       THEN /\ tmpFiles' = [tmpFiles EXCEPT ![TmpOf(p)].written = @ + 1]
            /\ UNCHANGED <<loc, pc, budget>>
       ELSE /\ MayFault /\ Faulted
            /\ AwExcept(p, [type |-> "OSError", from |-> "json.dump"])
    /\ UNCHANGED <<files, clock, upd, query, answer, read_result, fetch, sched, run>>

\* lines 34-35: tmp_path is bound and the with block closes the file, or the close
\* fails
AwClose(p, ok) ==
    /\ pc[p] = "aw_dump"
    /\ Flushed(tmpFiles[TmpOf(p)])
    /\ IF ok
       THEN /\ loc' = [loc EXCEPT ![p].write.tmp_path = loc[p].write.tmp]
            /\ pc' = [pc EXCEPT ![p] = "aw_replace"]
            /\ UNCHANGED <<tmpFiles, budget>>
       ELSE /\ MayFault /\ Faulted
            /\ LET w == [loc[p].write EXCEPT !.tmp_path = loc[p].write.tmp]
               IN  /\ loc' = [loc EXCEPT ![p].write = w,
                                         ![p].fault = [type |-> "OSError", from |-> "close"],
                                         ![p].exc = [type |-> "OSError", from |-> "close"]]
                   /\ tmpFiles' = Unlinked(tmpFiles, w.tmp_path)
                   /\ pc' = [pc EXCEPT ![p] = "aw_raised"]
    /\ UNCHANGED <<files, clock, upd, query, answer, read_result, fetch, sched, run>>

\* line 36: os.replace(tmp_path, file_path), or it fails. After it the caller goes
\* on: run_update to the historical records (line 53), _save_historical_records to
\* its next pair
AwReplace(p, ok) ==
    /\ pc[p] = "aw_replace"
    /\ IF ok
       THEN /\ files' = [files EXCEPT ![loc[p].write.file_path] = tmpFiles[TmpOf(p)]]
            /\ tmpFiles' = Unlinked(tmpFiles, loc[p].write.tmp)
            /\ loc' = [loc EXCEPT ![p].i = @ + 1]
            /\ pc' = [pc EXCEPT ![p] = "history"]
            /\ budget' = budget
       ELSE /\ MayFault /\ Faulted
            /\ AwExcept(p, [type |-> "OSError", from |-> "os.replace"])
            /\ files' = files
    /\ UNCHANGED <<clock, upd, query, answer, read_result, fetch, sched, run>>

\* the bare `raise` of save_current_rates (storage.py 50-52): the error of the write
\* leaves save_current_rates
SaveErrorSwallowed(exc) == FALSE
SaveErrorRaised(exc) == exc.type # ""

\* `except Exception` of _save_historical_records (updater.py 128): OSError and
\* UnboundLocalError are both caught
RecordErrorCaughtNever(exc) == FALSE
RecordErrorCaught(exc) == exc.type \in {"OSError", "UnboundLocalError"}

\* the error leaves _atomic_write: save_current_rates raises it again and run_update
\* returns False (storage.py 50-52, updater.py 61-63); save_historical_record raises
\* it again and _save_historical_records skips the record (storage.py 67-69,
\* updater.py 128-129)
AwRaised(p) ==
    /\ pc[p] = "aw_raised"
    /\ IF loc[p].write.file_path = RATES_FILE_PATH /\ SaveErrorRaised(loc[p].exc)
       THEN RunUpdateFails(p, [loc[p] EXCEPT !.save_failed = TRUE])
       ELSE IF loc[p].write.file_path = HISTORY_FILE_PATH /\ ~RecordErrorCaught(loc[p].exc)
       THEN RunUpdateFails(p, loc[p])
       ELSE /\ loc' = [loc EXCEPT ![p].i = @ + 1]
            /\ pc' = [pc EXCEPT ![p] = "history"]
    /\ UNCHANGED <<files, tmpFiles, clock, upd, budget, query, answer, read_result, fetch, sched, run>>

\* _save_historical_records, one pair: the record is created, the history is loaded
\* and save_historical_record enters _atomic_write with the longer list; after the
\* last pair run_update returns True
HistoryNext(p) ==
    /\ pc[p] = "history"
    /\ IF loc[p].i > Len(loc[p].all_rates)
       THEN /\ loc' = [loc EXCEPT ![p].ret = "True"]
            /\ pc' = [pc EXCEPT ![p] = "idle"]
            /\ clock' = clock
       ELSE LET record == create_historical_record(loc[p].all_rates[loc[p].i], clock + 1)
                history == Append(_load_history(files), record)
            IN  /\ loc' = [loc EXCEPT ![p].write = [NoWrite EXCEPT
                                          !.file_path = HISTORY_FILE_PATH,
                                          !.data = JArray(history)]]
                /\ clock' = clock + 1
                /\ pc' = [pc EXCEPT ![p] = "aw_create"]
    /\ UNCHANGED <<files, tmpFiles, upd, budget, query, answer, read_result, fetch, sched, run>>

\* _atomic_write holds a temporary file that it has neither renamed nor removed
InWrite(p) == pc[p] \in {"aw_dump", "aw_replace"}

\* the process is killed while a write holds its temporary file: its threads and
\* updaters are gone, the files stay as they are, and a new process starts
Crash ==
    /\ \E p \in Procs : InWrite(p)
    /\ MayFault /\ Faulted
    /\ pc' = [p \in Procs |-> "idle"]
    /\ loc' = [p \in Procs |-> InitLoc]
    /\ upd' = [u \in Updaters |-> InitUpdater]
    /\ sched' = InitScheduler
    /\ run' = [p \in Workers |-> NoThread]
    /\ UNCHANGED <<files, tmpFiles, clock, query, answer, read_result, fetch>>

-----------------------------------------------------------------------------
(* Spec: update runs on the scheduler's updater, one after the other.         *)
(* SpecConc: the scheduler's worker and the foreground caller, interleaved.   *)

Init ==
    /\ InitThreads
    /\ files = FilesWith(NoFile)
    /\ query = NoQuery
    /\ answer = NoAnswer

\* a step of thread p inside run_update, the endpoints answering from cg_responses
\* and er_responses
UpdateStep(p, cg_responses, er_responses) ==
    \/ \E resp \in cg_responses : FetchCoinGecko(p, resp)
    \/ \E resp \in er_responses : FetchExchangeRate(p, resp)
    \/ PrepareSnapshot(p)
    \/ \E ok \in BOOLEAN : AwCreate(p, ok)
    \/ \E ok \in BOOLEAN : AwDump(p, ok)
    \/ \E ok \in BOOLEAN : AwClose(p, ok)
    \/ \E ok \in BOOLEAN : AwReplace(p, ok)
    \/ AwRaised(p)
    \/ HistoryNext(p)

\* a step of thread p after the two fetches, every write going through
StoreStep(p) ==
    \/ PrepareSnapshot(p)
    \/ AwCreate(p, TRUE)
    \/ AwDump(p, TRUE)
    \/ AwClose(p, TRUE)
    \/ AwReplace(p, TRUE)
    \/ HistoryNext(p)

\* a step of thread p: it calls run_update or goes on inside it
Step(p, cg_responses, er_responses) ==
    \/ \E u \in Updaters : RunUpdateBegin(p, u)
    \/ UpdateStep(p, cg_responses, er_responses)

Next == Step("worker", CgResponses, ErResponses) \/ Crash

Spec == Init /\ [][Next]_vars

\* the answers drawn from when two runs interleave: CoinGecko is down and
\* ExchangeRate-API answers with one rate, of a configured currency or of another
CgResponsesConc ==
    {r \in CgResponses : r.kind = "error"}
ErResponsesConc ==
    {r \in ErResponses : /\ r.kind = "json" /\ r.result = "success"
                         /\ Cardinality(DOMAIN r.conversion_rates) = 1}

NextConc ==
    \/ \E p \in {"worker", "manual"} : Step(p, CgResponsesConc, ErResponsesConc)
    \/ Crash

SpecConc == Init /\ [][NextConc]_vars

-----------------------------------------------------------------------------
(* SpecMerge: run_update on any mappings the two clients hand back, the pair  *)
(* keys of both drawn from one set (currency lists that overlap)              *)

MergeKeys == {PairKey("BTC", BASE_CURRENCY), PairKey("EUR", BASE_CURRENCY)}
\* the rate the crypto client quotes and the rate the fiat client quotes
CryptoQuote == RInt(4)
FiatQuote == RInt(2)

\* the dicts over MergeKeys at one rate, in every insertion order
MappingsAt(rate) ==
    {<<>>}
    \cup {<< <<k, rate>> >> : k \in MergeKeys}
    \cup {<< <<ks[1], rate>>, <<ks[2], rate>> >> :
             ks \in {x \in MergeKeys \X MergeKeys : x[1] # x[2]}}

\* lines 33-36: coingecko_client.fetch_rates() returns `rates`
CoinGeckoReturns(p, rates) ==
    /\ pc[p] = "fetch_coingecko"
    /\ _fetch_from_coingecko(p, Fetched(rates))

\* lines 39-42: exchangerate_client.fetch_rates() returns `rates`
ExchangeRateReturns(p, rates) ==
    /\ pc[p] = "fetch_exchangerate"
    /\ _fetch_from_exchangerate(p, Fetched(rates))

NextMerge ==
    \/ RunUpdateBegin("worker", "scheduler")
    \/ \E rates \in MappingsAt(CryptoQuote) : CoinGeckoReturns("worker", rates)
    \/ \E rates \in MappingsAt(FiatQuote) : ExchangeRateReturns("worker", rates)
    \/ StoreStep("worker")

SpecMerge == Init /\ [][NextMerge]_vars

-----------------------------------------------------------------------------
(* SpecWrites: update runs one after the other whose writes can fail, the      *)
(* process staying up; each client brings one pair at most                     *)

NextWrites == Step("worker", CgResponses, ErResponsesConc)

SpecWrites == Init /\ [][NextWrites]_vars

-----------------------------------------------------------------------------
(* SpecOnce: RatesScheduler.run_once() called by the foreground thread beside  *)
(* the cycles of the scheduler's worker                                        *)

\* scheduler.py 59-62: run_once calls self.updater.run_update(), on the updater the
\* worker's cycles use (line 43)
RunOnce ==
    /\ pc["manual"] = "idle"
    /\ run_update_entry("manual", "scheduler")

NextOnce ==
    \/ RunUpdateBegin("worker", "scheduler")
    \/ RunOnce
    \/ \E p \in {"worker", "manual"} :
          \/ \E resp \in CgResponsesConc : FetchCoinGecko(p, resp)
          \/ \E resp \in ErResponsesConc : FetchExchangeRate(p, resp)
          \/ StoreStep(p)

SpecOnce == Init /\ [][NextOnce]_vars

-----------------------------------------------------------------------------
(* Scheduler: parser_service/scheduler.py. SpecSched: the foreground caller     *)
(* calls start() and stop() while the workers run _run; SpecSchedFair: the same *)
(* with every worker thread scheduled again and again.                          *)

\* self.interval in sleep ticks of one second (interval_minutes * 60)
Interval == 2

Alive(p) == run[p].alive
\* the thread is inside self.updater.run_update(), between its call and its return
InUpdate(p) ==
    Alive(p) /\ pc[p] \notin {"run_test", "wait_test", "sleep", "idle"}

\* line 22: self._thread and self._thread.is_alive()
NeverRunning == FALSE
AlreadyRunning == \E t \in sched._thread : Alive(t)

\* the Thread object line 27 creates: one that is not running
NewThread == IF ~Alive("worker") THEN "worker" ELSE "worker2"

\* RatesScheduler.start (lines 20-29); the caller's pc keeps how its last call ended
Start ==
    /\ pc["manual"] # "joining"
    /\ IF AlreadyRunning
       THEN /\ pc' = [pc EXCEPT !["manual"] = "already_running"]
            /\ UNCHANGED <<sched, run>>
       ELSE /\ \E t \in Workers : ~Alive(t)
            /\ sched' = [_stop_event |-> FALSE, _thread |-> {NewThread}]
            /\ run' = [run EXCEPT ![NewThread] = StartedThread]
            /\ pc' = [pc EXCEPT !["manual"] = "started", ![NewThread] = "run_test"]
    /\ UNCHANGED <<files, tmpFiles, clock, loc, upd, budget, query, answer,
                   read_result, fetch>>

\* RatesScheduler.stop, lines 31-35: the event is set and the caller joins the thread
Stop ==
    /\ pc["manual"] # "joining"
    /\ sched' = [sched EXCEPT !._stop_event = TRUE]
    /\ pc' = [pc EXCEPT !["manual"] = IF sched._thread # {} THEN "joining" ELSE "stopped"]
    /\ UNCHANGED <<files, tmpFiles, clock, loc, upd, budget, query, answer,
                   read_result, fetch, run>>

\* join(timeout=5) returns: the thread has ended, or the five seconds are over while
\* it is still inside an update
JoinReturns ==
    /\ pc["manual"] = "joining"
    /\ \A t \in sched._thread : ~Alive(t) \/ InUpdate(t)
    /\ pc' = [pc EXCEPT !["manual"] = "stopped"]
    /\ UNCHANGED <<files, tmpFiles, clock, loc, upd, budget, query, answer,
                   read_result, fetch, sched, run>>

\* line 40: `while not self._stop_event.is_set()`; when the event is set _run
\* returns and the thread ends
RunTest(p) ==
    /\ Alive(p) /\ pc[p] = "run_test"
    /\ IF sched._stop_event
       THEN /\ run' = [run EXCEPT ![p] = NoThread]
            /\ pc' = [pc EXCEPT ![p] = "idle"]
       ELSE /\ budget.runs < MaxRuns
            /\ pc' = [pc EXCEPT ![p] = "cycle"]
            /\ run' = run
    /\ UNCHANGED <<files, tmpFiles, clock, loc, upd, budget, query, answer,
                   read_result, fetch, sched>>

\* lines 41-43: the cycle calls self.updater.run_update() (updater.py 23-29)
RunCycle(p) ==
    /\ Alive(p) /\ pc[p] = "cycle"
    /\ budget' = [budget EXCEPT !.runs = @ + 1]
    /\ loc' = [loc EXCEPT ![p] = BeginLoc(UpdaterOf(p), files)]
    /\ upd' = [upd EXCEPT ![UpdaterOf(p)] = [successful_sources |-> 0, total_rates |-> 0]]
    /\ pc' = [pc EXCEPT ![p] = "fetch_coingecko"]
    /\ UNCHANGED <<files, tmpFiles, clock, query, answer, read_result, fetch, sched, run>>

\* lines 45-51: where _run goes on after the cycle, whatever run_update returned
AfterCycleStopOnFailure(ret) == IF ret = "True" THEN "wait_test" ELSE "exit"
AfterCycle(ret) == "wait_test"

\* lines 45-54: run_update has returned; the result is logged and wait_time = 0
CycleEnd(p) ==
    /\ Alive(p) /\ pc[p] = "idle"
    /\ IF AfterCycle(loc[p].ret) = "exit"
       THEN /\ run' = [run EXCEPT ![p] = NoThread]
            /\ pc' = pc
       ELSE /\ run' = [run EXCEPT ![p].wait_time = 0]
            /\ pc' = [pc EXCEPT ![p] = AfterCycle(loc[p].ret)]
    /\ UNCHANGED <<files, tmpFiles, clock, loc, upd, budget, query, answer,
                   read_result, fetch, sched>>

\* line 55: `wait_time < self.interval and not self._stop_event.is_set()`
WaitConditionNoStop(wait_time, stop_event) == wait_time < Interval
WaitCondition(wait_time, stop_event) == wait_time < Interval /\ ~stop_event

\* line 55: the wait goes on with a sleep of one second, or it is over
WaitTest(p) ==
    /\ Alive(p) /\ pc[p] = "wait_test"
    /\ pc' = [pc EXCEPT ![p] =
                IF WaitCondition(run[p].wait_time, sched._stop_event)
                THEN "sleep" ELSE "run_test"]
    /\ UNCHANGED <<files, tmpFiles, clock, loc, upd, budget, query, answer,
                   read_result, fetch, sched, run>>

\* lines 56-57: time.sleep(1) returns and wait_time += 1
SleepDone(p) ==
    /\ Alive(p) /\ pc[p] = "sleep"
    /\ run' = [run EXCEPT ![p].wait_time = @ + 1]
    /\ pc' = [pc EXCEPT ![p] = "wait_test"]
    /\ UNCHANGED <<files, tmpFiles, clock, loc, upd, budget, query, answer,
                   read_result, fetch, sched>>

\* a step of the worker thread p: _run, and run_update inside it
WorkerStep(p) ==
    \/ RunTest(p)
    \/ RunCycle(p)
    \/ UpdateStep(p, CgResponsesConc, ErResponsesConc)
    \/ CycleEnd(p)
    \/ WaitTest(p)
    \/ SleepDone(p)

NextSched ==
    \/ Start
    \/ Stop
    \/ JoinReturns
    \/ \E p \in Workers : WorkerStep(p)

SpecSched == Init /\ [][NextSched]_vars

\* a started thread runs: the interpreter schedules it, its requests time out, its
\* sleeps end
SpecSchedFair == SpecSched /\ \A p \in Workers : WF_vars(WorkerStep(p))

-----------------------------------------------------------------------------
(* The resolver on the snapshot files it can be given: SpecRate *)

\* the codes of the pair keys of a snapshot file
SnapshotCodes == <<"USD", "EUR", "BTC", "RUB">>
\* the rates of its entries
SnapshotRates == {RInt(2), RInt(4)}
\* the codes get_rate is called with: registered ones, one in another case, and
\* one the registry does not hold
QueryCodes == {"USD", "EUR", "BTC", "eur", "GBP"}

CodeIndex(code) == CHOOSE i \in DOMAIN SnapshotCodes : SnapshotCodes[i] = code

SnapshotKeys ==
    {PairKey(SnapshotCodes[i], SnapshotCodes[j]) : i, j \in DOMAIN SnapshotCodes}

\* every entry of a snapshot was stamped at its own moment, and last_refresh after them
EntryStamp(key) == CodeIndex(key[1]) * Len(SnapshotCodes) + CodeIndex(key[2])
RefreshStamp == (Len(SnapshotCodes) + 1) * Len(SnapshotCodes) + 1

\* a snapshot with the entries of `keys` at the rates `rates`
SnapshotGiven(keys, rates) ==
    JObject({"pairs", "last_refresh"},
            [k \in keys |-> Entry(rates[k], EntryStamp(k), SourceOf(k[1]))],
            RefreshStamp)

\* rates.json when it is not a readable snapshot: missing, cut short, or another
\* JSON value
RatesFilesOdd ==
    {NoFile,
     File(SnapshotGiven({}, <<>>), NChunks - 1),
     File(EmptyDict, NChunks),
     File(JArray(<<>>), NChunks),
     File(JObject({"last_refresh"}, <<>>, RefreshStamp), NChunks),
     File(JObject({"pairs"}, <<>>, 0), NChunks)}

InitRate ==
    /\ InitThreads
    /\ \/ \E f \in RatesFilesOdd : files = FilesWith(f)
       \/ \E keys \in SUBSET SnapshotKeys :
             /\ Cardinality(keys) <= MaxPairs
             /\ \E rates \in [keys -> SnapshotRates] :
                   files = FilesWith(File(SnapshotGiven(keys, rates), NChunks))
    /\ query = NoQuery
    /\ answer = NoAnswer

\* a call of portfolio_manager.get_rate(from_code, to_code); it leaves rates.json as
\* it is, so one call on each file covers every sequence of calls
GetRate(from_code, to_code) ==
    /\ query = NoQuery /\ read_result = NoRead
    /\ query' = <<from_code, to_code>>
    /\ answer' = get_rate(files, from_code, to_code)
    /\ UNCHANGED <<files, tmpFiles, clock, pc, loc, upd, budget,
                   read_result, fetch, sched, run>>

\* a call of RatesStorage.read_current_rates() on the same files
ReadCurrentRates(io_error) ==
    /\ query = NoQuery /\ read_result = NoRead
    /\ read_result' = ReadCurrentRatesCall(files, io_error)
    /\ UNCHANGED <<files, tmpFiles, clock, pc, loc, upd, budget, query, answer,
                   fetch, sched, run>>

NextRate ==
    \/ \E from_code, to_code \in QueryCodes : GetRate(from_code, to_code)
    \/ \E io_error \in BOOLEAN : ReadCurrentRates(io_error)

SpecRate == InitRate /\ [][NextRate]_vars

-----------------------------------------------------------------------------
(* An update and then a rate request, CoinGecko quoting any price: SpecQuoted *)

\* the prices CoinGecko may quote for a coin: float(rate) takes a zero or a
\* negative number as it takes any other
QuotedPrices == {RInt(4), RInt(0), RInt(0 - 4)}
CgQuotes ==
    {r \in CgResponses : r.kind = "error"}
    \cup {[kind |-> "json", data |-> d] : d \in [CgIdsAnswered -> QuotedPrices]}

\* the codes asked of get_rate once a snapshot may be there
QuotedCodes == {"BTC", "USD"}

\* get_rate called between two updates
GetRateBetweenUpdates(from_code, to_code) ==
    /\ pc["worker"] = "idle"
    /\ GetRate(from_code, to_code)

NextQuoted ==
    \/ Step("worker", CgQuotes, ErResponsesConc)
    \/ \E from_code, to_code \in QuotedCodes : GetRateBetweenUpdates(from_code, to_code)

SpecQuoted == Init /\ [][NextQuoted]_vars

-----------------------------------------------------------------------------
(* SpecAged: a snapshot that grows older before get_rate is called             *)

\* SettingsLoader._set_defaults / get_rates_ttl: the time-to-live of cached rates
rates_ttl_seconds == 300
\* half-lives of the time-to-live the model lets pass
MaxTicks == 3

\* the snapshots get_rate is asked over, written at time RefreshStamp
AgedKeys == {PairKey("EUR", "USD"), PairKey("BTC", "USD")}

InitAged ==
    /\ InitThreads
    /\ \E keys \in SUBSET AgedKeys :
          \E rates \in [keys -> SnapshotRates] :
              files = FilesWith(File(SnapshotGiven(keys, rates), NChunks))
    /\ query = NoQuery
    /\ answer = NoAnswer

\* the seconds since the snapshot's last_refresh; the clock counts seconds from the
\* moment the snapshot was written
Age == clock

\* time passes before get_rate is called
Tick ==
    /\ query = NoQuery
    /\ Age < MaxTicks * (rates_ttl_seconds \div 2)
    /\ clock' = clock + (rates_ttl_seconds \div 2)
    /\ UNCHANGED <<files, tmpFiles, pc, loc, upd, budget, query, answer,
                   read_result, fetch, sched, run>>

NextAged ==
    \/ Tick
    \/ \E from_code, to_code \in QueryCodes : GetRate(from_code, to_code)

SpecAged == InitAged /\ [][NextAged]_vars

-----------------------------------------------------------------------------
(* The source clients on the answers an endpoint can give: SpecFetch *)

\* CoinGecko: ids it prices (one is not configured) and the prices it quotes
FetchCgIds == {"bitcoin", "ethereum", "dogecoin"}
FetchCgPrices == {RInt(4), RInt(0)}
CgAnswers ==
    {[kind |-> "error", data |-> <<>>], [kind |-> "malformed", data |-> <<>>]}
    \cup UNION {{[kind |-> "json", data |-> d] : d \in [S -> FetchCgPrices]} :
                   S \in SUBSET FetchCgIds}

\* ExchangeRate-API: the `result` of the body ("" when it has none), the currencies
\* it converts (one is not configured) and the rates it quotes
FetchErResults == {"success", "error", ""}
FetchErCodes == {"EUR", "RUB", "JPY"}
FetchErRates == {<<1, 2>>, RInt(2)}
ErAnswers ==
    {[kind |-> k, result |-> "", conversion_rates |-> <<>>] :
        k \in {"nokey", "error", "malformed"}}
    \cup UNION {{[kind |-> "json", result |-> r, conversion_rates |-> d] :
                    r \in FetchErResults, d \in [S -> FetchErRates]} :
                   S \in SUBSET FetchErCodes}

\* a call of CoinGeckoClient().fetch_rates() that the endpoint answers with resp
FetchRatesCoinGecko(resp) ==
    /\ fetch = NoFetch
    /\ fetch' = [client |-> "CoinGeckoClient", response |-> resp,
                 result |-> CoinGeckoFetchRates(resp)]
    /\ UNCHANGED <<files, tmpFiles, clock, pc, loc, upd, budget, query, answer,
                   read_result, sched, run>>

\* a call of ExchangeRateApiClient().fetch_rates() that the endpoint answers with resp
FetchRatesExchangeRate(resp) ==
    /\ fetch = NoFetch
    /\ fetch' = [client |-> "ExchangeRateApiClient", response |-> resp,
                 result |-> ExchangeRateFetchRates(resp)]
    /\ UNCHANGED <<files, tmpFiles, clock, pc, loc, upd, budget, query, answer,
                   read_result, sched, run>>

NextFetch ==
    \/ \E resp \in CgAnswers : FetchRatesCoinGecko(resp)
    \/ \E resp \in ErAnswers : FetchRatesExchangeRate(resp)

SpecFetch == Init /\ [][NextFetch]_vars

-----------------------------------------------------------------------------
(* Claims about the resolver, checked under SpecRate *)

Asked == query # NoQuery
FromCode == query[1]
ToCode == query[2]
Known(code) == upper(code) \in _currency_registry
RatesFile == files[RATES_FILE_PATH]
\* rates.json parses to a non-empty object that holds "pairs"
UsableSnapshot ==
    /\ RatesFile.exists /\ RatesFile.written = NChunks
    /\ RatesFile.json.type = "object" /\ "pairs" \in RatesFile.json.keys
StoredPairs == RatesFile.json.pairs
Stored(from_code, to_code) == <<from_code, to_code>> \in DOMAIN StoredPairs
StoredRate(from_code, to_code) == StoredPairs[<<from_code, to_code>>].rate
StoredStamp(from_code, to_code) == StoredPairs[<<from_code, to_code>>].updated_at
Returned == answer.kind = "return"
One == <<1, 1>>
Half == <<1, 2>>

\* C1 as stated: for every known code A and every state of rates.json, missing,
\* empty and unreadable included, get_rate(A, A) returns rate 1.0 and raises nothing.
C1_IdentityWhateverTheFile ==
    (Asked /\ FromCode = ToCode /\ Known(FromCode))
        => (Returned /\ answer.rate = One)

\* C1 amended: for every known code A, get_rate(A, A) returns rate 1.0 with the
\* snapshot's last_refresh whenever rates.json parses to a non-empty object that holds
\* "pairs", whatever the pairs are; on any other rates.json it raises ApiRequestError
\* (rates data not available).
C1_IdentityOnUsableSnapshot ==
    (Asked /\ FromCode = ToCode /\ Known(FromCode))
        => IF UsableSnapshot
           THEN /\ Returned /\ answer.rate = One
                /\ answer.updated_at =
                     (IF "last_refresh" \in RatesFile.json.keys
                      THEN {RatesFile.json.last_refresh} ELSE {})
           ELSE /\ answer.kind = "raise" /\ answer.exc = "ApiRequestError"
                /\ answer.reason = <<"Failed to get rate", "Rates data not available">>

\* get_rate(EUR, EUR) answered 1.0 from a snapshot that stores EUR_EUR at another rate
C1_Witness ==
    /\ query = <<"EUR", "EUR">> /\ UsableSnapshot /\ Stored("EUR", "EUR")
    /\ StoredRate("EUR", "EUR") # One
    /\ Returned /\ answer.rate = One

\* C2: for distinct known A, B, when the snapshot holds A_B at rate r and not B_A,
\* get_rate(B, A) returns 1/r with the updated_at of the A_B entry.
C2_InversePair ==
    (/\ Asked /\ FromCode # ToCode /\ Known(FromCode) /\ Known(ToCode)
     /\ UsableSnapshot
     /\ Stored(ToCode, FromCode) /\ ~Stored(FromCode, ToCode))
        => /\ Returned
           /\ answer.rate = <<StoredRate(ToCode, FromCode)[2], StoredRate(ToCode, FromCode)[1]>>
           /\ answer.updated_at = {StoredStamp(ToCode, FromCode)}

\* get_rate(USD, EUR) answered 1/2 from EUR_USD = 2 with that entry's stamp
C2_Witness ==
    /\ query = <<"USD", "EUR">> /\ UsableSnapshot
    /\ Stored("EUR", "USD") /\ ~Stored("USD", "EUR") /\ StoredRate("EUR", "USD") = <<2, 1>>
    /\ Returned /\ answer.rate = Half
    /\ answer.updated_at = {StoredStamp("EUR", "USD")}
    /\ answer.updated_at # {RatesFile.json.last_refresh}

\* C3: for distinct known A, B, when the snapshot holds A_B, get_rate(A, B) returns
\* that entry's rate and updated_at, whether or not B_A or a path through USD is
\* there too.
C3_DirectPairFirst ==
    (/\ Asked /\ FromCode # ToCode /\ Known(FromCode) /\ Known(ToCode)
     /\ UsableSnapshot /\ Stored(FromCode, ToCode))
        => /\ Returned
           /\ answer.rate = StoredRate(FromCode, ToCode)
           /\ answer.updated_at = {StoredStamp(FromCode, ToCode)}

\* get_rate(EUR, BTC) answered from EUR_BTC = 2 although BTC_EUR = 4 is stored as well
C3_Witness ==
    /\ query = <<"EUR", "BTC">> /\ UsableSnapshot
    /\ Stored("EUR", "BTC") /\ Stored("BTC", "EUR")
    /\ StoredRate("EUR", "BTC") = <<2, 1>> /\ StoredRate("BTC", "EUR") = <<4, 1>>
    /\ Returned /\ answer.rate = <<2, 1>>

\* C4: with X_USD = 2.0 and Y_USD = 4.0 stored and neither X_Y nor Y_X,
\* get_rate(X, Y) resolves to 0.5.
C4_TransitiveHalf ==
    (/\ Asked /\ FromCode # ToCode /\ Known(FromCode) /\ Known(ToCode)
     /\ UsableSnapshot
     /\ ~Stored(FromCode, ToCode) /\ ~Stored(ToCode, FromCode)
     /\ Stored(FromCode, "USD") /\ StoredRate(FromCode, "USD") = <<2, 1>>
     /\ Stored(ToCode, "USD") /\ StoredRate(ToCode, "USD") = <<4, 1>>)
        => (Returned /\ answer.rate = Half)

\* the rate of code against USD: the C_USD entry, else the inverse of USD_C
LegStored(code) == Stored(code, "USD") \/ Stored("USD", code)
LegRate(code) ==
    IF Stored(code, "USD") THEN StoredRate(code, "USD")
    ELSE <<StoredRate("USD", code)[2], StoredRate("USD", code)[1]>>
\* x / y in lowest terms
Quotient(x, y) ==
    LET n == x[1] * y[2]
        d == x[2] * y[1]
        g == CHOOSE c \in 1..(n + d) :
                /\ n % c = 0 /\ d % c = 0
                /\ \A e \in 1..(n + d) : (n % e = 0 /\ d % e = 0) => e <= c
    IN  <<n \div g, d \div g>>

\* C5: with neither A_B nor B_A stored and both A and B resolving against USD,
\* get_rate(A, B) returns (B-to-USD rate) / (A-to-USD rate) stamped with last_refresh.
C5_CrossRateViaUsd ==
    (/\ Asked /\ FromCode # ToCode /\ Known(FromCode) /\ Known(ToCode)
     /\ UsableSnapshot
     /\ ~Stored(FromCode, ToCode) /\ ~Stored(ToCode, FromCode)
     /\ LegStored(FromCode) /\ LegStored(ToCode))
        => /\ Returned
           /\ answer.rate = Quotient(LegRate(ToCode), LegRate(FromCode))
           /\ answer.updated_at = {RatesFile.json.last_refresh}

\* get_rate(EUR, BTC) from USD_EUR = 2 (leg 1/2, by the inverse) and BTC_USD = 4:
\* 4 / (1/2) = 8, stamped with last_refresh and with neither leg's stamp
C5_Witness ==
    /\ query = <<"EUR", "BTC">> /\ UsableSnapshot
    /\ ~Stored("EUR", "BTC") /\ ~Stored("BTC", "EUR")
    /\ ~Stored("EUR", "USD") /\ Stored("USD", "EUR") /\ StoredRate("USD", "EUR") = <<2, 1>>
    /\ Stored("BTC", "USD") /\ StoredRate("BTC", "USD") = <<4, 1>>
    /\ Returned /\ answer.rate = <<8, 1>>
    /\ answer.updated_at = {RatesFile.json.last_refresh}
    /\ RatesFile.json.last_refresh \notin {StoredStamp("USD", "EUR"), StoredStamp("BTC", "USD")}

\* C6: for distinct known A, B with no A_B, no B_A and a leg to USD missing (also
\* when A and B are linked through another currency), get_rate(A, B) raises the
\* rate-unavailable error that names the pair, and returns no rate.
C6_NoPathFails ==
    (/\ Asked /\ FromCode # ToCode /\ Known(FromCode) /\ Known(ToCode)
     /\ UsableSnapshot
     /\ ~Stored(FromCode, ToCode) /\ ~Stored(ToCode, FromCode)
     /\ ~(LegStored(FromCode) /\ LegStored(ToCode)))
        => /\ answer.kind = "raise" /\ answer.exc = "ApiRequestError"
           /\ answer.reason =
                <<"Failed to get rate", "Rate for pair not found", FromCode, ToCode>>

\* get_rate(EUR, BTC) failed although EUR_RUB and RUB_BTC link the two, and EUR_USD
\* gives one leg
C6_Witness ==
    /\ query = <<"EUR", "BTC">> /\ UsableSnapshot
    /\ Stored("EUR", "RUB") /\ Stored("RUB", "BTC") /\ Stored("EUR", "USD")
    /\ answer.kind = "raise"
    /\ answer.reason = <<"Failed to get rate", "Rate for pair not found", "EUR", "BTC">>

-----------------------------------------------------------------------------
(* Claims about run_update, checked under Spec *)

BothInvoked == <<"coingecko", "exchangerate">>
\* the run_update call of thread p has returned
Finished(p) == pc[p] = "idle" /\ loc[p].ret # "None"
\* both clients were asked and neither brought a pair: CoinGecko raised or answered
\* with no configured coin, ExchangeRate-API answered with no configured currency
NoneSucceeded(p) ==
    /\ loc[p].invoked = BothInvoked
    /\ loc[p].crypto_rates = <<>> /\ loc[p].fiat_rates = <<>>
\* exactly one of the two clients brought pairs
OneSucceeded(p) ==
    /\ Len(loc[p].invoked) = 2
    /\ (loc[p].crypto_rates = <<>>) # (loc[p].fiat_rates = <<>>)
Succeeding(p) ==
    IF loc[p].crypto_rates # <<>> THEN loc[p].crypto_rates ELSE loc[p].fiat_rates
\* rates.json is the whole text of a snapshot with exactly the pairs of `rates`
SnapshotOf(rates) ==
    /\ RatesFile.exists /\ Parses(RatesFile)
    /\ RatesFile.json.type = "object"
    /\ RatesFile.json.keys = {"pairs", "last_refresh"}
    /\ DOMAIN RatesFile.json.pairs = Keys(rates)
    /\ \A i \in DOMAIN rates : RatesFile.json.pairs[rates[i][1]].rate = rates[i][2]

\* C7: when both clients come back empty or failed, run_update prepares and writes
\* nothing and returns False: rates.json and the history file are what they were
\* when the call began.
C7_NothingFetchedStoreUntouched ==
    \A p \in Procs :
        NoneSucceeded(p) =>
            /\ pc[p] \in {"merged", "idle"}
            /\ loc[p].write = NoWrite
            /\ files = loc[p].files_at_call
            /\ pc[p] = "idle" => loc[p].ret = "False"

\* a run that fetched nothing returned False over the snapshot and the history an
\* earlier run had written
C7_Witness ==
    \E p \in Procs :
        /\ Finished(p) /\ NoneSucceeded(p) /\ loc[p].ret = "False"
        /\ loc[p].files_at_call[RATES_FILE_PATH].exists
        /\ Len(_load_history(files)) > 0
        /\ files = loc[p].files_at_call

\* C8 as stated: when exactly one client brings pairs, the other was still invoked,
\* run_update returns True, successful_sources is 1 and rates.json holds exactly the
\* pairs of the client that succeeded.
C8_OneSourceAlwaysTrue ==
    \A p \in Procs :
        (Finished(p) /\ OneSucceeded(p)) =>
            /\ loc[p].invoked = BothInvoked
            /\ loc[p].ret = "True"
            /\ upd[loc[p].updater].successful_sources = 1
            /\ SnapshotOf(Succeeding(p))

\* C8 amended: a run that has returned invoked both clients, whatever the first one
\* did; when exactly one brought pairs successful_sources is 1, and run_update returns
\* True with rates.json holding exactly that client's pairs provided the snapshot
\* write did not fail; when the write failed it returns False and rates.json is what
\* it was before the call.
C8_OneSourceTrueUnlessSaveFails ==
    \A p \in Procs :
        /\ (pc[p] = "idle" /\ loc[p].invoked # <<>>) => loc[p].invoked = BothInvoked
        /\ (Finished(p) /\ OneSucceeded(p)) =>
              /\ upd[loc[p].updater].successful_sources = 1
              /\ IF loc[p].save_failed
                 THEN /\ loc[p].ret = "False"
                      /\ RatesFile = loc[p].files_at_call[RATES_FILE_PATH]
                 ELSE /\ loc[p].ret = "True"
                      /\ RatesFile = File(loc[p].rates_data, NChunks)
                      /\ SnapshotOf(Succeeding(p))

\* CoinGecko failed and ExchangeRate-API brought pairs: the run returned True and the
\* BTC_USD entry of the snapshot before it is gone from rates.json
C8_Witness ==
    \E p \in Procs :
        /\ Finished(p) /\ OneSucceeded(p) /\ loc[p].crypto_rates = <<>>
        /\ loc[p].invoked = BothInvoked
        /\ loc[p].ret = "True" /\ upd[loc[p].updater].successful_sources = 1
        /\ loc[p].files_at_call[RATES_FILE_PATH].exists
        /\ <<"BTC", "USD">> \in DOMAIN loc[p].files_at_call[RATES_FILE_PATH].json.pairs
        /\ SnapshotOf(loc[p].fiat_rates)
        /\ <<"BTC", "USD">> \notin DOMAIN RatesFile.json.pairs

-----------------------------------------------------------------------------
(* Claims about the rate store: C9 under SpecConc, C10 under Spec *)

\* thread p is inside _atomic_write for rates.json
SavingSnapshot(p) ==
    /\ pc[p] \in {"aw_create", "aw_dump", "aw_replace", "aw_raised"}
    /\ loc[p].write.file_path = RATES_FILE_PATH
\* what a reader of rates.json gets is a whole snapshot
CompleteSnapshot ==
    /\ Parses(RatesFile)
    /\ read_current_rates(files) = RatesFile.json
    /\ RatesFile.json.type = "object"
    /\ RatesFile.json.keys = {"pairs", "last_refresh"}
\* rates.json changes only by the rename of one save, to the whole of what that
\* save prepared
ReplacedByOneSave ==
    files'[RATES_FILE_PATH] # files[RATES_FILE_PATH] =>
        \E p \in Procs :
            /\ SavingSnapshot(p) /\ pc[p] = "aw_replace"
            /\ files'[RATES_FILE_PATH] = File(loc[p].rates_data, NChunks)

\* C9: whatever saves are doing (writing, failed, interleaved, killed before the
\* rename), rates.json, once there, reads as a complete snapshot, and it changes only
\* from one complete snapshot to the complete snapshot of one save.
C9_ReaderSeesCompleteSnapshot ==
    /\ [](RatesFile.exists => CompleteSnapshot)
    /\ [][ReplacedByOneSave]_vars

\* one save has renamed its snapshot into place while the other save's temporary
\* file holds a part of another snapshot
C9_Witness ==
    \E p, q \in Procs :
        /\ p # q
        /\ pc[p] = "history" /\ RatesFile = File(loc[p].rates_data, NChunks)
        /\ SavingSnapshot(q) /\ pc[q] = "aw_dump"
        /\ tmpFiles[TmpOf(q)].written \in 1..(NChunks - 1)
        /\ loc[q].rates_data # loc[p].rates_data
        /\ RatesFile.exists /\ CompleteSnapshot

\* the destination is what it was when the write began
DestinationUnchanged(p) ==
    IF loc[p].write.file_path = RATES_FILE_PATH
    THEN RatesFile = loc[p].files_at_call[RATES_FILE_PATH]
    ELSE LET items == loc[p].write.data.items
         IN  _load_history(files) = SubSeq(items, 1, Len(items) - 1)

\* C10: when _atomic_write fails, at whichever step, the temporary file is gone, the
\* error that leaves it is the one that occurred, and the destination is unchanged.
C10_FailedWriteCleansUp ==
    \A p \in Procs :
        pc[p] = "aw_raised" =>
            /\ loc[p].write.tmp \cap DOMAIN tmpFiles = {}
            /\ loc[p].exc = loc[p].fault
            /\ DestinationUnchanged(p)

-----------------------------------------------------------------------------
(* Claims about the reader of the store, checked under SpecRate *)

ReadDone == read_result # NoRead

\* C11: a read_current_rates call raises nothing, whatever rates.json is and
\* whatever I/O error meets it; on a missing or unparseable file it returns {}; and
\* the call leaves every file as it was.
C11_ReadNeverRaises ==
    /\ [](ReadDone =>
            /\ read_result.raised = ""
            /\ (~RatesFile.exists \/ ~Parses(RatesFile)) => read_result.value = EmptyDict)
    /\ [][read_result' # read_result => (files' = files /\ tmpFiles' = tmpFiles)]_vars

\* a read of a rates.json that holds only the first part of a snapshot's text
\* returned {}
C11_Witness ==
    /\ ReadDone /\ RatesFile.exists /\ ~Parses(RatesFile)
    /\ read_result = ReadResult("", EmptyDict)

-----------------------------------------------------------------------------
(* Claims about what a run leaves in the store, checked under Spec *)

\* the entries of the history file, as the list the file holds
HistoryItems(fs) ==
    IF fs[HISTORY_FILE_PATH].exists THEN fs[HISTORY_FILE_PATH].json.items ELSE <<>>
\* the run of thread p returned True and none of its writes failed
SucceededCleanly(p) ==
    Finished(p) /\ loc[p].ret = "True" /\ loc[p].fault = NoException

ProducedKeys(p) == Keys(loc[p].crypto_rates) \cup Keys(loc[p].fiat_rates)

\* C13: after a run_update that returned True, the pair keys of rates.json are
\* exactly the keys this run's clients produced, each at the rate of the merged
\* mapping: nothing of the snapshot before the call is carried over.
C13_SnapshotReplacedNotMerged ==
    \A p \in Procs :
        (Finished(p) /\ loc[p].ret = "True") =>
            /\ RatesFile.exists /\ Parses(RatesFile)
            /\ Keys(loc[p].all_rates) = ProducedKeys(p)
            /\ DOMAIN RatesFile.json.pairs = ProducedKeys(p)
            /\ \A i \in DOMAIN loc[p].all_rates :
                  RatesFile.json.pairs[loc[p].all_rates[i][1]].rate = loc[p].all_rates[i][2]

\* a run returned True over a snapshot that held a pair this run did not produce:
\* that pair is gone, and a pair the earlier snapshot did not hold is there
C13_Witness ==
    \E p \in Procs :
        /\ Finished(p) /\ loc[p].ret = "True"
        /\ loc[p].files_at_call[RATES_FILE_PATH].exists
        /\ LET before == DOMAIN loc[p].files_at_call[RATES_FILE_PATH].json.pairs
               after == DOMAIN RatesFile.json.pairs
           IN  /\ before \ after # {}
               /\ after \ before # {}
               /\ after = ProducedKeys(p)

-----------------------------------------------------------------------------
(* Claims about the source clients, checked under SpecFetch *)

FetchDone == fetch # NoFetch
\* the expected failure modes: a transport error, a missing API key, a body of
\* another shape than the client reads
ExpectedFailure == fetch.response.kind \in {"error", "nokey", "malformed"}
\* the fallback table by what the client is configured with
FallbackKeys == {PairKey(c, BASE_CURRENCY) : c \in Range(FIAT_CURRENCIES)}
IsFallback(rates) ==
    /\ Keys(rates) = {k \in FallbackKeys : FallbackRate(k) # {}}
    /\ \A i \in DOMAIN rates : rates[i][2] \in FallbackRate(rates[i][1])
    /\ \A i, j \in DOMAIN rates : rates[i][1] = rates[j][1] => i = j

\* C14: on an expected failure mode fetch_rates of either client raises nothing and
\* returns an empty mapping or the fallback rates.
C14_FetchRatesNeverRaises ==
    (FetchDone /\ ExpectedFailure) =>
        /\ fetch.result.raised = ""
        /\ fetch.result.rates = <<>> \/ IsFallback(fetch.result.rates)

\* the answers that make the fiat client fall back
FiatFallsBack ==
    /\ fetch.client = "ExchangeRateApiClient"
    /\ \/ ExpectedFailure
       \/ /\ fetch.response.kind = "json"
          /\ \/ fetch.response.result # "success"
             \/ DOMAIN fetch.response.conversion_rates = {}

\* C15: with no API key, a failed request, a body that is no success or that has no
\* conversion rates, the fiat client's fetch_rates raises nothing and returns the
\* fallback rates, keyed FIAT_BASE, of the configured fiat currencies that have one.
C15_FiatFallback ==
    (FetchDone /\ FiatFallsBack) =>
        /\ fetch.result.raised = ""
        /\ IsFallback(fetch.result.rates)
        /\ Len(fetch.result.rates) = Len(FIAT_CURRENCIES)

\* the API answered "error" with conversion rates in the body: the client returned
\* the fallback EUR_USD, not the rate of the body
C15_Witness ==
    /\ FetchDone /\ FiatFallsBack
    /\ fetch.response.kind = "json" /\ fetch.response.result = "error"
    /\ "EUR" \in DOMAIN fetch.response.conversion_rates
    /\ fetch.result = Fetched(<< <<PairKey("EUR", "USD"), <<93, 100>> >>,
                                 <<PairKey("GBP", "USD"), <<79, 100>> >>,
                                 <<PairKey("RUB", "USD"), <<11, 1000>> >> >>)

-----------------------------------------------------------------------------
(* Claims about the scheduler: C16 under SpecSched, C17 and C18 under          *)
(* SpecSchedFair                                                               *)

AliveWorkers == {p \in Workers : Alive(p)}
StopRequested == sched._stop_event
\* a step creates a thread, clears the event or points _thread elsewhere
SchedulerTouched ==
    \/ \E p \in Workers : ~Alive(p) /\ run'[p].alive
    \/ sched' # sched /\ ~sched'._stop_event
    \/ sched'._thread # sched._thread

\* C16: whatever start() and stop() calls are made, at most one worker thread is
\* alive; and while one is alive no step (so no start()) creates a thread, clears
\* the event or changes _thread: start() then only warns and returns.
C16_AtMostOneWorker ==
    /\ [](Cardinality(AliveWorkers) <= 1)
    /\ [][AliveWorkers # {} => ~SchedulerTouched]_vars
    /\ [][(AliveWorkers # {} /\ pc'["manual"] # pc["manual"]
                /\ pc'["manual"] \in {"started", "already_running"})
            => (pc'["manual"] = "already_running" /\ sched' = sched /\ run' = run)]_vars
    /\ [](pc["manual"] = "already_running" => sched._thread # {})

\* start() was called after a stop() whose join timed out: the one worker is still
\* alive, the call only warned, and the event is still set
C16_Witness ==
    /\ pc["manual"] = "already_running"
    /\ Cardinality(AliveWorkers) = 1
    /\ StopRequested
    /\ \E p \in AliveWorkers : InUpdate(p) /\ sched._thread = {p}

\* C17: once stop() has set the event, a worker passes the loop test into no new
\* cycle and begins no new sleep, it does not end inside run_update, and it ends:
\* every alive worker whose stop was requested is eventually not alive.
C17_StopEndsWorker ==
    /\ [][\A p \in Workers :
            StopRequested =>
                /\ ~(pc[p] = "run_test" /\ pc'[p] = "cycle")
                /\ ~(pc[p] # "sleep" /\ pc'[p] = "sleep")]_vars
    /\ [][\A p \in Workers : InUpdate(p) => run'[p].alive]_vars
    /\ \A p \in Workers : (Alive(p) /\ StopRequested) ~> ~Alive(p)

\* a worker that was stopped has ended after the update it was in went through to
\* its result, and the caller's stop() has returned
C17_Witness ==
    \E p \in Workers :
        /\ sched._thread = {p} /\ ~Alive(p) /\ StopRequested
        /\ pc["manual"] = "stopped"
        /\ loc[p].ret = "True"

\* the run_update call of the worker's cycle has returned
CycleOver(p) == Alive(p) /\ pc[p] = "idle"

\* C18: a worker ends only with the stop event set; after a cycle, whatever
\* run_update returned, it goes on to its wait; and after a failed cycle, unless
\* stop is requested, the next cycle begins (while the model's bound on runs lasts).
C18_FailedCycleKeepsWorker ==
    /\ [][\A p \in Workers : (Alive(p) /\ ~run'[p].alive) => StopRequested]_vars
    /\ [][\A p \in Workers :
            (CycleOver(p) /\ pc'[p] # pc[p]) => (pc'[p] = "wait_test" /\ run'[p].alive)]_vars
    /\ \A p \in Workers :
          (CycleOver(p) /\ loc[p].ret = "False" /\ budget.runs < MaxRuns)
              ~> (pc[p] = "cycle" \/ StopRequested)

\* after a cycle that returned False, with no stop requested, the worker has waited
\* the interval and passed the loop test into its next cycle
C18_Witness ==
    \E p \in Workers :
        /\ Alive(p) /\ pc[p] = "cycle" /\ ~StopRequested
        /\ loc[p].ret = "False"
        /\ run[p].wait_time = Interval

-----------------------------------------------------------------------------
(* Claim about the rates of a snapshot: C19 under SpecQuoted                   *)

RatePositive(rate) == rate[1] > 0 /\ rate[2] > 0

\* C19 as stated: every pair of every snapshot that run_update wrote has rate > 0,
\* whatever the clients returned, and every rate get_rate returns is positive.
C19_RatesPositive ==
    /\ (RatesFile.exists /\ Parses(RatesFile))
          => \A k \in DOMAIN StoredPairs : RatePositive(StoredPairs[k].rate)
    /\ (query # NoQuery /\ Returned) => RatePositive(answer.rate)

-----------------------------------------------------------------------------
(* Claim about the failures of get_rate: C20 under SpecRate                    *)

\* distinct known codes, a usable snapshot, and no direct, inverse or USD path
UnknownPairAsked ==
    /\ Asked /\ FromCode # ToCode /\ Known(FromCode) /\ Known(ToCode)
    /\ UsableSnapshot
    /\ ~Stored(FromCode, ToCode) /\ ~Stored(ToCode, FromCode)
    /\ ~(LegStored(FromCode) /\ LegStored(ToCode))
\* what the same request gives while there is no rates.json, and what a request
\* with a code the registry does not hold gives
NoDataFailure == get_rate(FilesWith(NoFile), FromCode, ToCode)
UnknownCurrencyFailure == get_rate(files, "GBP", ToCode)

\* C20 as stated: the failure of a request for an unknown pair can be told by the
\* caller from the no-data failure and from the unknown-currency failure: it is
\* another exception, and buy_currency prints another hint for it.
C20_UnknownPairToldApart ==
    UnknownPairAsked =>
        /\ answer.kind = "raise"
        /\ answer.exc # UnknownCurrencyFailure.exc
        /\ answer.exc # NoDataFailure.exc
        /\ BuyCurrencyHint(answer) # BuyCurrencyHint(NoDataFailure)

-----------------------------------------------------------------------------
(* Claim about the history under interleaved runs: C21 under SpecConc          *)

Records(fs) == Range(HistoryItems(fs))

\* C21 as stated: a record that is in the history file is in it, as it was, after
\* every step of every interleaving of run_update calls.
C21_HistoryRecordsStay ==
    [][Records(files) \subseteq Records(files')]_vars

-----------------------------------------------------------------------------
(* Claims about the merge of the two mappings, checked under SpecMerge         *)

\* the keys both clients returned in the run of thread p
SharedKeys(p) == Keys(loc[p].crypto_rates) \cap Keys(loc[p].fiat_rates)
\* the places of key in a dict, and the rate it has there
PlacesOf(dict, key) == {i \in DOMAIN dict : dict[i][1] = key}
RateOf(dict, key) == dict[CHOOSE i \in PlacesOf(dict, key) : TRUE][2]
\* the records the run of thread p has appended to the history
Appended(p) ==
    SubSeq(HistoryItems(files), Len(HistoryItems(loc[p].files_at_call)) + 1,
           Len(HistoryItems(files)))

\* C22: for a key both clients returned in one run, the merged mapping holds the key
\* once with the fiat client's rate, and after the run returned True so do the
\* snapshot and the records the run appended to the history.
C22_LaterClientWins ==
    \A p \in Procs : \A key \in SharedKeys(p) :
        loc[p].invoked = BothInvoked =>
            /\ Cardinality(PlacesOf(loc[p].all_rates, key)) = 1
            /\ RateOf(loc[p].all_rates, key) = RateOf(loc[p].fiat_rates, key)
            /\ (Finished(p) /\ loc[p].ret = "True") =>
                  /\ RatesFile.json.pairs[key].rate = RateOf(loc[p].fiat_rates, key)
                  /\ Cardinality({i \in DOMAIN Appended(p) : Appended(p)[i].meta = key}) = 1
                  /\ \A i \in DOMAIN Appended(p) :
                        Appended(p)[i].meta = key =>
                            Appended(p)[i].rate = RateOf(loc[p].fiat_rates, key)

\* both clients returned EUR_USD, the crypto client first and at another rate: the
\* run returned True with the fiat client's rate in the snapshot, at the place the
\* crypto client's entry had taken in the merged mapping
C22_Witness ==
    \E p \in Procs :
        /\ Finished(p) /\ loc[p].ret = "True"
        /\ PairKey("EUR", "USD") \in SharedKeys(p)
        /\ RateOf(loc[p].crypto_rates, PairKey("EUR", "USD")) = CryptoQuote
        /\ RateOf(loc[p].fiat_rates, PairKey("EUR", "USD")) = FiatQuote
        /\ loc[p].all_rates[1] = <<PairKey("EUR", "USD"), FiatQuote>>
        /\ Len(loc[p].all_rates) = 2
        /\ RatesFile.json.pairs[PairKey("EUR", "USD")].rate = FiatQuote

-----------------------------------------------------------------------------
(* Claims about failed writes, checked under SpecWrites                        *)

\* a write of the history failed in the run of thread p (the snapshot's did not)
HistoryWriteFailed(p) ==
    /\ loc[p].fault # NoException /\ ~loc[p].save_failed
    /\ loc[p].write.file_path = HISTORY_FILE_PATH
\* the pair whose record thread p is at
AtPair(p) == pc[p] = "history" /\ loc[p].i <= Len(loc[p].all_rates)

\* C23: after a failed write of a historical record the run does not return False
\* and its snapshot stays rates.json; the failure moves the run to the next pair, and
\* for every pair it is at a record of that pair is handed to the write; at the end
\* it returns True.
C23_RecordFailureSkipped ==
    /\ [](\A p \in Procs :
            HistoryWriteFailed(p) =>
                /\ loc[p].ret # "False"
                /\ RatesFile = File(loc[p].rates_data, NChunks)
                /\ pc[p] = "idle" => loc[p].ret = "True")
    /\ [][\A p \in Procs :
            (/\ pc[p] = "aw_raised" /\ loc[p].write.file_path = HISTORY_FILE_PATH
             /\ pc'[p] # pc[p])
                => (pc'[p] = "history" /\ loc'[p].i = loc[p].i + 1)]_vars
    /\ [][\A p \in Procs :
            (AtPair(p) /\ pc'[p] # pc[p])
                => /\ pc'[p] = "aw_create"
                   /\ loc'[p].write.file_path = HISTORY_FILE_PATH
                   /\ LET items == loc'[p].write.data.items
                      IN  items[Len(items)].meta = loc[p].all_rates[loc[p].i][1]]_vars

\* the record of BTC_USD failed, the record of EUR_USD was appended after it, and
\* the run returned True over its own snapshot
C23_Witness ==
    \E p \in Procs :
        /\ Finished(p) /\ loc[p].ret = "True" /\ HistoryWriteFailed(p)
        /\ Keys(loc[p].all_rates) = {PairKey("BTC", "USD"), PairKey("EUR", "USD")}
        /\ loc[p].all_rates[1][1] = PairKey("BTC", "USD")
        /\ Len(Appended(p)) = 1 /\ Appended(p)[1].meta = PairKey("EUR", "USD")
        /\ RatesFile = File(loc[p].rates_data, NChunks)

\* the write of the snapshot has raised in the run of thread p
SnapshotWriteRaised(p) ==
    pc[p] = "aw_raised" /\ loc[p].write.file_path = RATES_FILE_PATH
\* rates.json and the history are what they were when the run began
StoreAsAtCall(p) ==
    /\ RatesFile = loc[p].files_at_call[RATES_FILE_PATH]
    /\ files[HISTORY_FILE_PATH] = loc[p].files_at_call[HISTORY_FILE_PATH]

\* C24: when the write of the snapshot fails, an error leaves _atomic_write and
\* save_current_rates, the next step of the run is its return of False, and rates.json
\* and the history are then what they were before the run.
C24_SnapshotFailureAborts ==
    /\ [](\A p \in Procs :
            /\ SnapshotWriteRaised(p) =>
                  /\ loc[p].exc # NoException /\ loc[p].all_rates # <<>>
                  /\ StoreAsAtCall(p)
            /\ loc[p].save_failed =>
                  /\ pc[p] = "idle" /\ loc[p].ret = "False"
                  /\ StoreAsAtCall(p))
    /\ [][\A p \in Procs :
            (SnapshotWriteRaised(p) /\ pc'[p] # pc[p])
                => (pc'[p] = "idle" /\ loc'[p].ret = "False" /\ loc'[p].save_failed)]_vars

\* the write of a new snapshot failed over the snapshot and the history of an earlier
\* run: the run returned False and both files are the earlier run's
C24_Witness ==
    \E p \in Procs :
        /\ Finished(p) /\ loc[p].save_failed /\ loc[p].ret = "False"
        /\ loc[p].all_rates # <<>>
        /\ RatesFile.exists /\ Len(HistoryItems(files)) > 0
        /\ StoreAsAtCall(p)
        /\ RatesFile.json # loc[p].rates_data

-----------------------------------------------------------------------------
(* Claim about successful_sources over consecutive runs: C25 under SpecWrites  *)

\* the clients that returned a non-empty mapping to the run of thread p
NonEmptySources(p) ==
    (IF loc[p].crypto_rates # <<>> THEN 1 ELSE 0)
    + (IF loc[p].fiat_rates # <<>> THEN 1 ELSE 0)
\* thread p calls run_update in this step
Begins(p) == pc[p] = "idle" /\ pc'[p] = "fetch_coingecko"

\* C25: when a run_update has returned, successful_sources of its updater is the
\* number of clients that returned a non-empty mapping in that run; and the step
\* that begins a run sets both counters to 0.
C25_SuccessfulSourcesOfThisRun ==
    /\ [](\A p \in Procs :
            Finished(p) =>
                upd[loc[p].updater].successful_sources = NonEmptySources(p))
    /\ [][\A p \in Procs :
            Begins(p) => upd'[UpdaterOf(p)] = InitUpdater]_vars

\* the second run on the updater brought nothing (CoinGecko raised and the fiat
\* client returned an empty mapping) after a run that had written a snapshot: the
\* counter is 0
C25_Witness ==
    \E p \in Procs :
        /\ Finished(p) /\ budget.runs = 2
        /\ loc[p].files_at_call[RATES_FILE_PATH].exists
        /\ NoneSucceeded(p)
        /\ upd[loc[p].updater].successful_sources = 0

-----------------------------------------------------------------------------
(* Claim about run_once beside a background cycle: C26 under SpecOnce          *)

\* the run_update call of thread p returns in this step
Returns(p) == pc[p] # "idle" /\ pc'[p] = "idle" /\ loc'[p].ret # "None"

\* C26 as stated: when a run returns, the counters of its updater are those of the
\* run's own source results, also when run_once() ran beside a background cycle.
C26_CountersOfOwnRun ==
    [][\A p \in Procs :
          Returns(p) =>
              /\ upd'[loc[p].updater].successful_sources = NonEmptySources(p)
              /\ upd'[loc[p].updater].total_rates =
                    Len(loc[p].crypto_rates) + Len(loc[p].fiat_rates)]_vars

-----------------------------------------------------------------------------
(* Claim about last_refresh under interleaved runs: C27 under SpecConc         *)

LastRefresh(fs) == fs[RATES_FILE_PATH].json.last_refresh

\* C27 as stated: in every interleaving of run_update calls, no step puts a
\* snapshot with an earlier last_refresh in the place of rates.json, and once both
\* runs have returned True rates.json is the snapshot that was prepared last.
C27_LastRefreshNeverBackwards ==
    /\ [][(RatesFile.exists /\ files'[RATES_FILE_PATH].exists)
            => LastRefresh(files') >= LastRefresh(files)]_vars
    /\ []((\A p \in {"worker", "manual"} : Finished(p) /\ loc[p].ret = "True")
            => \A p \in {"worker", "manual"} :
                  LastRefresh(files) >= loc[p].rates_data.last_refresh)

-----------------------------------------------------------------------------
(* Claim about start() after stop(): C28 under SpecSched                       *)

\* the caller's last call of the scheduler was start(), and it has returned
StartReturned == pc["manual"] \in {"started", "already_running"}
\* a worker is alive and has not been asked to stop
Running == AliveWorkers # {} /\ ~StopRequested

\* C28 as stated: after a start() call has returned, and until the next stop(), the
\* scheduler is running, also when the start() came after a stop() that returned
\* while the worker was inside an update.
C28_RunningAfterStart ==
    StartReturned => Running

-----------------------------------------------------------------------------
(* Claim about the age of the snapshot get_rate answers from: C29 under SpecAged *)

\* C29 as stated: get_rate returns a rate only while the snapshot's last_refresh is
\* no older than rates_ttl_seconds.
C29_AnswersWithinTtl ==
    (Asked /\ Returned) => Age <= rates_ttl_seconds

-----------------------------------------------------------------------------
(* Claim about total_rates: C30 under SpecMerge                                *)

ReturnedTrue(p) == Finished(p) /\ loc[p].ret = "True"
PairsWritten(p) == Cardinality(DOMAIN loc[p].rates_data.pairs)

\* C30 as stated: after a run_update that returned True, total_rates is the number
\* of pairs in the snapshot the run wrote, whatever the two mappings were.
C30_TotalRatesIsPairCount ==
    \A p \in Procs :
        ReturnedTrue(p) => upd[loc[p].updater].total_rates = PairsWritten(p)

\* C30 amended: after a run_update that returned True, total_rates is the sum of the
\* sizes of the two mappings the clients returned: the number of pairs in the
\* snapshot the run wrote plus the number of keys both clients returned, so the pair
\* count exactly when the mappings share no key.
C30_TotalRatesIsSumOfMappings ==
    \A p \in Procs :
        ReturnedTrue(p) =>
            /\ RatesFile = File(loc[p].rates_data, NChunks)
            /\ upd[loc[p].updater].total_rates =
                  Len(loc[p].crypto_rates) + Len(loc[p].fiat_rates)
            /\ upd[loc[p].updater].total_rates =
                  PairsWritten(p) + Cardinality(SharedKeys(p))

\* both clients returned EUR_USD and the crypto client BTC_USD as well: the snapshot
\* has 2 pairs and total_rates is 3
C30_Witness ==
    \E p \in Procs :
        /\ ReturnedTrue(p)
        /\ SharedKeys(p) = {PairKey("EUR", "USD")}
        /\ Len(loc[p].crypto_rates) = 2 /\ Len(loc[p].fiat_rates) = 1
        /\ PairsWritten(p) = 2
        /\ upd[loc[p].updater].total_rates = 3


====
